---- MODULE Spec2Model ----
(***************************************************************************)
(* Archetype storage of the ecs package (archetype.go, storage.go), the   *)
(* entity id pool of World (World.Entity) and the engine facade that      *)
(* binds them (create / add / remove / set / get / has / destroy), the    *)
(* archetype graph, the component registry and resources, and the systems *)
(* of World with World.Tick.                                               *)
(*                                                                         *)
(* A component value (the item's block of bytes) is one number of         *)
(* 0..MaxVal; 0 is the all-zero block.  A row index is 0-based as in the  *)
(* code; TLA+ sequences are 1-based, so row r of a buffer is buffer[r+1]. *)
(***************************************************************************)
EXTENDS Integers, Sequences, FiniteSets, TLC

VARIABLES
    archs,              \* mask -> archetype, or NoArch while not yet created
    index,              \* entity id -> (archetype, row): the entity index
    liveEntitieIDs,     \* World.liveEntitieIDs
    freeEntitieIDs,     \* World.freeEntitieIDs
    nextEntityID,       \* World.nextEntityID
    capacityIncrement,  \* the configured capacity increment
    lastOp,             \* history: the last operation, its arguments and result
    rt,                 \* history: an add(e, ids) and the remove(e, ids) after it
    steps,              \* the number of operations performed so far
    nodes,              \* the archetype graph: the nodes, in creation order
    registry,           \* the component registry: the type keys, in id order
    systems,            \* World.systems: system id -> its systemRunner
    leftToRun,          \* World.leftToRun: ids of runners
    notRunWithDependenciesDone,  \* World.notRunWithDependenciesDone: ids
    nextSystemID,       \* World.nextSystemID
    tickCount,          \* World.tickCount
    tick                \* the running World.Tick: its position, its goroutines
                        \* and, as history, the calls of each system's Tick

\* the systems of a World and its running Tick
sysvars == <<systems, leftToRun, notRunWithDependenciesDone, nextSystemID,
             tickCount, tick>>

vars == <<archs, index, liveEntitieIDs, freeEntitieIDs, nextEntityID,
          capacityIncrement, lastOp, rt, steps, nodes, registry,
          systems, leftToRun, notRunWithDependenciesDone, nextSystemID,
          tickCount, tick>>

---------------------------------------------------------------------------
(* Bounds *)

\* entity ids are 0 .. MaxIds-1
MaxIds == 2
\* component values are 0 .. MaxVal
MaxVal == 1
\* the configured capacity increment is one of 1 .. MaxCapInc
MaxCapInc == 2
\* operations performed in one run
MaxOps == 5
\* rows appended to one archetype when it is driven directly (SpecArch)
MaxRows == 3
\* components of an archetype driven directly, and length of a component list
MaxComps == 2
\* component ids 0 .. MaxWorldComps-1 are used through the facade (Spec)
MaxWorldComps == 2

---------------------------------------------------------------------------
(* Component types *)

\* item size of component id i is CompSize[i+1]: position, rotation, and a
\* zero-sized tag
CompSize == <<8, 4, 0>>

CompIds == 0 .. (Len(CompSize) - 1)
Masks == SUBSET CompIds
EntityIds == 0 .. (MaxIds - 1)
Vals == 0 .. MaxVal
\* the nil buffer pointer of a layout, the nil address, and no value behind it
Nil == 0
NilPtr == <<>>
NoValue == -1
NoArch == [none |-> TRUE]
NoEntry == [none |-> TRUE]
NoRT == [stage |-> "none"]

Max(S) == CHOOSE x \in S : \A y \in S : y <= x
Min(S) == CHOOSE x \in S : \A y \in S : x <= y

RECURSIVE SortedIds(_)
\* the ids of a mask in ascending order
SortedIds(mask) ==
    IF mask = {} THEN <<>>
    ELSE LET m == Min(mask) IN <<m>> \o SortedIds(mask \ {m})

RECURSIVE Zeros(_)
Zeros(n) == IF n <= 0 THEN <<>> ELSE Append(Zeros(n - 1), 0)

\* one more operation, while the run's budget lasts
CountOp == steps < MaxOps /\ steps' = steps + 1

\* no World.Tick is running
Idle == [pc |-> "idle", spawned |-> {}, ticking |-> {}, calls |-> <<>>]

\* NewWorld: no systems, the first system id is 1
NoSystems ==
    /\ systems = <<>>
    /\ leftToRun = {}
    /\ notRunWithDependenciesDone = {}
    /\ nextSystemID = 1
    /\ tickCount = 0
    /\ tick = Idle

---------------------------------------------------------------------------
(* The entities column.  Its operations are those of Storage (storage.go); *)
(* its initial capacity is the one archetype.Init asks for: 1, or the      *)
(* capacity increment when the archetype is built for storage.             *)

StorageInit(increment, forStorage) ==
    LET cap == IF forStorage THEN increment ELSE 1
    IN  [buffer |-> Zeros(cap), len |-> 0, cap |-> cap,
         capacityIncrement |-> increment]

StorageGet(s, idx) == s.buffer[idx + 1]

StorageExtend(s) ==
    IF s.cap < s.len + 1
    THEN [s EXCEPT !.cap = s.cap + s.capacityIncrement,
                   !.buffer = s.buffer \o Zeros(s.capacityIncrement)]
    ELSE s

\* returns the storage and the index of the new element
StorageAdd(s, value) ==
    LET s1 == StorageExtend(s)
        s2 == [s1 EXCEPT !.len = s1.len + 1]
        s3 == [s2 EXCEPT !.buffer[s2.len] = value]
    IN  [s |-> s3, index |-> s3.len - 1]

StorageRemove_NeverSwapped(s, idx) ==
    LET o == s.len - 1
        n == idx
    IN  IF n < o
        THEN [s |-> [s EXCEPT !.buffer[n + 1] = s.buffer[o + 1], !.len = s.len - 1],
              swapped |-> FALSE]
        ELSE [s |-> [s EXCEPT !.len = s.len - 1], swapped |-> FALSE]

\* returns the storage and whether an element was moved into idx
StorageRemove(s, idx) ==
    LET o == s.len - 1
        n == idx
    IN  IF n < o
        THEN [s |-> [s EXCEPT !.buffer[n + 1] = s.buffer[o + 1], !.len = s.len - 1],
              swapped |-> TRUE]
        ELSE [s |-> [s EXCEPT !.len = s.len - 1], swapped |-> FALSE]

---------------------------------------------------------------------------
(* archetype.go *)

\* layout.Get: the address (buffer, row) of an item, Nil for a nil pointer
LayoutGet(l, idx) == IF l.pointer = Nil THEN NilPtr ELSE <<l.pointer, idx>>

StrictlySorted_AllowsRepeats(ids) ==
    \A i \in 1 .. (Len(ids) - 1) : ids[i] <= ids[i + 1]

RECURSIVE StrictlySorted(_)
StrictlySorted(ids) ==
    \/ Len(ids) <= 1
    \/ /\ ids[1] < ids[2]
       /\ StrictlySorted(Tail(ids))

\* position of id in the list ids (0-based), 0 when absent
IndexOf(ids, id) ==
    IF \E i \in 1 .. Len(ids) : ids[i] = id
    THEN (CHOOSE i \in 1 .. Len(ids) : ids[i] = id) - 1
    ELSE 0

ArchetypeInit_TagsNilPointer(increment, forStorage, components) ==
    LET cap == IF forStorage THEN increment ELSE 1
    IN  [panic    |-> ~StrictlySorted(components),
         Mask     |-> {components[i] : i \in 1 .. Len(components)},
         Ids      |-> components,
         buffers  |-> [i \in 1 .. Len(components) |-> Zeros(cap)],
         layouts  |-> [id \in CompIds |->
                         IF /\ \E i \in 1 .. Len(components) : components[i] = id
                            /\ CompSize[id + 1] > 0
                         THEN [pointer  |-> IndexOf(components, id) + 1,
                               itemSize |-> CompSize[id + 1]]
                         ELSE [pointer |-> Nil, itemSize |-> 0]],
         indices  |-> [id \in CompIds |-> IndexOf(components, id)],
         entities |-> StorageInit(increment, forStorage),
         len      |-> 0,
         cap      |-> cap,
         capacityIncrement |-> increment]

\* archetype.Init; components is the list of component ids.  The result has
\* panic = TRUE when the list is not strictly sorted by id.
ArchetypeInit(increment, forStorage, components) ==
    LET cap == IF forStorage THEN increment ELSE 1
    IN  [panic    |-> ~StrictlySorted(components),
         Mask     |-> {components[i] : i \in 1 .. Len(components)},
         Ids      |-> components,
         buffers  |-> [i \in 1 .. Len(components) |-> Zeros(cap)],
         layouts  |-> [id \in CompIds |->
                         IF \E i \in 1 .. Len(components) : components[i] = id
                         THEN [pointer  |-> IndexOf(components, id) + 1,
                               itemSize |-> CompSize[id + 1]]
                         ELSE [pointer |-> Nil, itemSize |-> 0]],
         indices  |-> [id \in CompIds |-> IndexOf(components, id)],
         entities |-> StorageInit(increment, forStorage),
         len      |-> 0,
         cap      |-> cap,
         capacityIncrement |-> increment]

GetEntity(a, idx) == StorageGet(a.entities, idx)

\* archetypeAccess.Get
ArchetypeGet(a, idx, id) == LayoutGet(a.layouts[id], idx)

\* the item behind an address returned by ArchetypeGet; a zero-sized item has
\* no bytes and reads as the empty block 0
Deref(a, ptr) ==
    IF a.layouts[a.Ids[ptr[1]]].itemSize = 0 THEN 0
    ELSE a.buffers[ptr[1]][ptr[2] + 1]

HasComponent(a, id) == a.layouts[id].pointer # Nil

\* the value of component id at row idx (NoValue when the archetype lacks id)
ValueAt(a, idx, id) ==
    LET ptr == ArchetypeGet(a, idx, id)
    IN  IF ptr = NilPtr THEN NoValue ELSE Deref(a, ptr)

Extend_FreshBuffers(a) ==
    IF a.cap > a.len THEN a
    ELSE LET newCap == a.capacityIncrement
                         * ((a.cap + a.capacityIncrement) \div a.capacityIncrement)
         IN  [a EXCEPT
                !.cap = newCap,
                !.buffers = [i \in 1 .. Len(a.Ids) |->
                               IF a.layouts[a.Ids[i]].itemSize = 0
                               THEN a.buffers[i]
                               ELSE Zeros(newCap)]]

Extend_AddsIncrement(a) ==
    IF a.cap > a.len THEN a
    ELSE LET newCap == a.cap + a.capacityIncrement
         IN  [a EXCEPT
                !.cap = newCap,
                !.buffers = [i \in 1 .. Len(a.Ids) |->
                               IF a.layouts[a.Ids[i]].itemSize = 0
                               THEN a.buffers[i]
                               ELSE a.buffers[i]
                                      \o Zeros(newCap - Len(a.buffers[i]))]]

\* archetype.extend
Extend(a) ==
    IF a.cap > a.len THEN a
    ELSE LET newCap == a.capacityIncrement
                         * ((a.cap + a.capacityIncrement) \div a.capacityIncrement)
         IN  [a EXCEPT
                !.cap = newCap,
                !.buffers = [i \in 1 .. Len(a.Ids) |->
                               IF a.layouts[a.Ids[i]].itemSize = 0
                               THEN a.buffers[i]
                               ELSE a.buffers[i]
                                      \o Zeros(newCap - Len(a.buffers[i]))]]

\* archetype.Zero
Zero(a, idx, id) ==
    LET lay == a.layouts[id]
    IN  IF lay.itemSize = 0 THEN a
        ELSE [a EXCEPT !.buffers[lay.pointer][idx + 1] = 0]

RECURSIVE ZeroFrom(_, _, _)
ZeroFrom(a, idx, i) ==
    IF i > Len(a.Ids) THEN a
    ELSE ZeroFrom(Zero(a, idx, a.Ids[i]), idx, i + 1)

ZeroAll_FirstColumnOnly(a, idx) ==
    IF Len(a.Ids) = 0 THEN a ELSE Zero(a, idx, a.Ids[1])

\* archetype.ZeroAll
ZeroAll(a, idx) == ZeroFrom(a, idx, 1)

\* archetype.copy into the item at dst
CopyTo(a, src, dst) == [a EXCEPT !.buffers[dst[1]][dst[2] + 1] = src]

ArchetypeAlloc_NoZero(a, entity, zero) ==
    LET r  == StorageAdd(a.entities, entity)
        a1 == Extend([a EXCEPT !.entities = r.s])
    IN  [a |-> [a1 EXCEPT !.len = a1.len + 1], idx |-> r.index]

\* archetype.Alloc: returns the archetype and the new row
ArchetypeAlloc(a, entity, zero) ==
    LET r  == StorageAdd(a.entities, entity)
        a1 == Extend([a EXCEPT !.entities = r.s])
        a2 == IF zero THEN ZeroAll(a1, r.index) ELSE a1
    IN  [a |-> [a2 EXCEPT !.len = a2.len + 1], idx |-> r.index]

RECURSIVE AddCopy(_, _, _, _)
\* the loop of archetype.Add over the supplied components
AddCopy(a, idx, components, i) ==
    IF i > Len(components) THEN a
    ELSE LET c   == components[i]
             lay == a.layouts[c.ID]
             dst == ArchetypeGet(a, idx, c.ID)
         IN  IF lay.itemSize = 0
             THEN AddCopy(a, idx, components, i + 1)
             ELSE AddCopy(CopyTo(a, c.Comp, dst), idx, components, i + 1)

ArchetypeAdd_AppendsFirst(a, entity, components) ==
    LET r  == StorageAdd(a.entities, entity)
        a0 == [a EXCEPT !.entities = r.s]
        a1 == Extend(a0)
        a2 == [a1 EXCEPT !.len = a1.len + 1]
    IN  IF Len(components) # Len(a.Ids)
        THEN [panic |-> TRUE, a |-> a0, idx |-> 0]
        ELSE [panic |-> FALSE, a |-> AddCopy(a2, r.index, components, 1),
              idx |-> r.index]

ArchetypeAdd_RowOne(a, entity, components) ==
    IF Len(components) # Len(a.Ids)
    THEN [panic |-> TRUE, a |-> a, idx |-> 0]
    ELSE LET r  == StorageAdd(a.entities, entity)
             a1 == Extend([a EXCEPT !.entities = r.s])
             a2 == [a1 EXCEPT !.len = a1.len + 1]
         IN  [panic |-> FALSE, a |-> AddCopy(a2, 0, components, 1), idx |-> r.index]

\* archetype.Add: returns the archetype and the new row, or panics
ArchetypeAdd(a, entity, components) ==
    IF Len(components) # Len(a.Ids)
    THEN [panic |-> TRUE, a |-> a, idx |-> 0]
    ELSE LET r  == StorageAdd(a.entities, entity)
             a1 == Extend([a EXCEPT !.entities = r.s])
             a2 == [a1 EXCEPT !.len = a1.len + 1]
         IN  [panic |-> FALSE, a |-> AddCopy(a2, r.index, components, 1),
              idx |-> r.index]

RECURSIVE RemoveCopy(_, _, _, _)
\* the loop of archetype.Remove over the archetype's ids
RemoveCopy(a, o, n, i) ==
    IF i > Len(a.Ids) THEN a
    ELSE LET lay == a.layouts[a.Ids[i]]
         IN  IF n = o \/ lay.itemSize = 0
             THEN RemoveCopy(a, o, n, i + 1)
             ELSE RemoveCopy(CopyTo(a, a.buffers[lay.pointer][o + 1],
                                    <<lay.pointer, n>>), o, n, i + 1)

ArchetypeRemove_KeepsLen(a, idx) ==
    LET r        == StorageRemove(a.entities, idx)
        a1       == [a EXCEPT !.entities = r.s]
        oldIndex == a1.len - 1
        a2       == RemoveCopy(a1, oldIndex, idx, 1)
    IN  [a |-> a2, swapped |-> r.swapped]

ArchetypeRemove_NoComponentSwap(a, idx) ==
    LET r == StorageRemove(a.entities, idx)
        a1 == [a EXCEPT !.entities = r.s]
    IN  [a |-> [a1 EXCEPT !.len = a1.len - 1], swapped |-> r.swapped]

\* archetype.Remove: returns the archetype and whether a row was moved
ArchetypeRemove(a, idx) ==
    LET r        == StorageRemove(a.entities, idx)
        a1       == [a EXCEPT !.entities = r.s]
        oldIndex == a1.len - 1
        a2       == RemoveCopy(a1, oldIndex, idx, 1)
    IN  [a |-> [a2 EXCEPT !.len = a2.len - 1], swapped |-> r.swapped]

ArchetypeSet_RowZero(a, idx, id, comp) ==
    LET lay == a.layouts[id]
        dst == ArchetypeGet(a, 0, id)
    IN  IF lay.itemSize = 0 THEN a ELSE CopyTo(a, comp, dst)

\* archetype.Set
ArchetypeSet(a, idx, id, comp) ==
    LET lay == a.layouts[id]
        dst == ArchetypeGet(a, idx, id)
    IN  IF lay.itemSize = 0 THEN a ELSE CopyTo(a, comp, dst)

---------------------------------------------------------------------------
(* One archetype driven directly, as in TestArchetype *)

Component == [ID : CompIds, Comp : Vals]

\* the component lists handed to archetype.Add
ComponentLists ==
    UNION {[1 .. n -> Component] : n \in 0 .. MaxComps}

WorldUntouched ==
    /\ UNCHANGED sysvars
    /\ UNCHANGED <<index, liveEntitieIDs, freeEntitieIDs, nextEntityID,
                   capacityIncrement, rt, nodes, registry>>

InitArch ==
    /\ capacityIncrement \in 1 .. MaxCapInc
    /\ \E m \in Masks, forStorage \in BOOLEAN :
          /\ Cardinality(m) <= MaxComps
          /\ archs = [mm \in Masks |->
                     IF mm = m
                     THEN ArchetypeInit(capacityIncrement, forStorage, SortedIds(m))
                     ELSE NoArch]
    /\ index = [e \in EntityIds |-> NoEntry]
    /\ liveEntitieIDs = {}
    /\ freeEntitieIDs = {}
    /\ nextEntityID = 0
    /\ lastOp = [op |-> "Init"]
    /\ rt = NoRT
    /\ steps = 0
    /\ nodes = <<>>
    /\ registry = <<>>
    /\ NoSystems

ArchAlloc(m, entity, zero) ==
    /\ CountOp
    /\ archs[m] # NoArch
    /\ archs[m].len \in 0 .. (MaxRows - 1)
    /\ LET r == ArchetypeAlloc(archs[m], entity, zero)
       IN  /\ archs' = [archs EXCEPT ![m] = r.a]
           /\ lastOp' = [op |-> "ArchAlloc", mask |-> m, entity |-> entity,
                         zero |-> zero, ret |-> r.idx]
    /\ WorldUntouched

ArchAdd(m, entity, components) ==
    /\ CountOp
    /\ archs[m] # NoArch
    /\ archs[m].len < MaxRows
    /\ LET r == ArchetypeAdd(archs[m], entity, components)
       IN  /\ archs' = [archs EXCEPT ![m] = r.a]
           /\ lastOp' = IF r.panic
                         THEN [op |-> "ArchAdd", mask |-> m, panic |-> TRUE,
                               count |-> Len(components)]
                         ELSE [op |-> "ArchAdd", mask |-> m, entity |-> entity,
                               components |-> components, panic |-> FALSE,
                               ret |-> r.idx]
    /\ WorldUntouched

\* a row index below len: an index at or above len breaks the caller's contract
ArchRemove(m, row) ==
    /\ CountOp
    /\ archs[m] # NoArch
    /\ row < archs[m].len
    /\ LET r == ArchetypeRemove(archs[m], row)
       IN  /\ archs' = [archs EXCEPT ![m] = r.a]
           /\ lastOp' = [op |-> "ArchRemove", mask |-> m, row |-> row,
                         ret |-> r.swapped]
    /\ WorldUntouched

NextArch ==
    \/ \E m \in Masks, e \in EntityIds, zero \in BOOLEAN : ArchAlloc(m, e, zero)
    \/ \E m \in Masks, e \in EntityIds, cs \in ComponentLists : ArchAdd(m, e, cs)
    \/ \E m \in Masks, row \in 0 .. (MaxRows - 1) : ArchRemove(m, row)

SpecArch == InitArch /\ [][NextArch]_vars

---------------------------------------------------------------------------
(* Archetypes constructed from arbitrary component lists, as in
   TestNewArchetype, then filled and emptied *)

\* the component lists handed to archetype.Init: any order, repeats allowed
IdLists == UNION {[1 .. n -> CompIds] : n \in 0 .. MaxComps}

InitConstruct ==
    /\ capacityIncrement \in 1 .. MaxCapInc
    /\ archs = [mm \in Masks |-> NoArch]
    /\ index = [e \in EntityIds |-> NoEntry]
    /\ liveEntitieIDs = {}
    /\ freeEntitieIDs = {}
    /\ nextEntityID = 0
    /\ lastOp = [op |-> "Init"]
    /\ rt = NoRT
    /\ steps = 0
    /\ nodes = <<>>
    /\ registry = <<>>
    /\ NoSystems

\* archetype.Init on a fresh archetype; a panic leaves no archetype behind
ArchInit(forStorage, components) ==
    /\ CountOp
    /\ LET a == ArchetypeInit(capacityIncrement, forStorage, components)
       IN  /\ ~a.panic => archs[a.Mask] = NoArch
           /\ archs' = IF a.panic THEN archs
                       ELSE [archs EXCEPT ![a.Mask] = a]
           /\ lastOp' = [op |-> "ArchInit", components |-> components,
                         forStorage |-> forStorage, panic |-> a.panic]
    /\ WorldUntouched

NextConstruct ==
    \/ \E forStorage \in BOOLEAN, cs \in IdLists : ArchInit(forStorage, cs)
    \/ \E m \in Masks, e \in EntityIds, zero \in BOOLEAN : ArchAlloc(m, e, zero)
    \/ \E m \in Masks, row \in 0 .. (MaxRows - 1) : ArchRemove(m, row)

SpecConstruct == InitConstruct /\ [][NextConstruct]_vars

---------------------------------------------------------------------------
(* Row indices the caller did not check: Get, Zero and Remove take any index
   and do pointer arithmetic on it.  An access that leaves the buffer is
   undefined: the run faults, or it goes on with whatever was there. *)

\* len, cap and the row indices are unsigned 32-bit numbers.  Such a number
\* is held as the signed number with the same 32 bits, so that 0 - 1 is
\* MaxUint32, the largest of them.
MaxUint32 == -1

\* the order of unsigned numbers
ULess(x, y) == IF (x < 0) = (y < 0) THEN x < y ELSE y < 0

\* the row indices tried
RowArgs == (0 .. MaxRows) \cup {MaxUint32}

\* Storage.Remove for any index: the outcomes [fault, s, swapped]
StorageRemoveAt(s, idx) ==
    LET o == s.len - 1
        n == idx
    IN  IF ULess(n, o)
        THEN IF ULess(o, s.cap)
             THEN {[fault |-> FALSE,
                    s |-> [s EXCEPT !.buffer[n + 1] = s.buffer[o + 1],
                                    !.len = s.len - 1],
                    swapped |-> TRUE]}
             ELSE {[fault |-> TRUE, s |-> s, swapped |-> FALSE]}
                  \cup {[fault |-> FALSE,
                         s |-> IF ULess(n, s.cap)
                               THEN [s EXCEPT !.buffer[n + 1] = v,
                                              !.len = s.len - 1]
                               ELSE [s EXCEPT !.len = s.len - 1],
                         swapped |-> TRUE] : v \in EntityIds}
        ELSE {[fault |-> FALSE, s |-> [s EXCEPT !.len = s.len - 1],
               swapped |-> FALSE]}

\* the archetype has a column with bytes in it
HasSizedColumn(a) == \E i \in 1 .. Len(a.Ids) : a.layouts[a.Ids[i]].itemSize > 0

RECURSIVE GarbageCopy(_, _, _, _)
\* the loop of archetype.Remove when the source row is outside the buffers:
\* row n, if inside, receives the bytes v found there
GarbageCopy(a, n, v, i) ==
    IF i > Len(a.Ids) THEN a
    ELSE LET lay == a.layouts[a.Ids[i]]
         IN  IF lay.itemSize = 0 \/ ~ULess(n, a.cap)
             THEN GarbageCopy(a, n, v, i + 1)
             ELSE GarbageCopy(CopyTo(a, v, <<lay.pointer, n>>), n, v, i + 1)

\* archetype.Remove for any index: the outcomes [fault, a, swapped]
ArchetypeRemoveAt(a, idx) ==
    UNION {IF r.fault
           THEN {[fault |-> TRUE, a |-> a, swapped |-> FALSE]}
           ELSE LET a1       == [a EXCEPT !.entities = r.s]
                    oldIndex == a1.len - 1
                    done(x)  == [fault |-> FALSE,
                                 a |-> [x EXCEPT !.len = x.len - 1],
                                 swapped |-> r.swapped]
                IN  IF idx = oldIndex \/ ~HasSizedColumn(a1)
                    THEN {done(a1)}
                    ELSE IF ULess(oldIndex, a1.cap) /\ ULess(idx, a1.cap)
                    THEN {done(RemoveCopy(a1, oldIndex, idx, 1))}
                    ELSE {[fault |-> TRUE, a |-> a, swapped |-> FALSE]}
                         \cup {done(GarbageCopy(a1, idx, v, 1)) : v \in Vals}
           : r \in StorageRemoveAt(a.entities, idx)}

\* archetype.Zero for any index: the outcomes [fault, a]
ArchetypeZeroAt(a, idx, id) ==
    LET lay == a.layouts[id]
    IN  IF lay.itemSize = 0 \/ ULess(idx, a.cap)
        THEN {[fault |-> FALSE, a |-> Zero(a, idx, id)]}
        ELSE {[fault |-> TRUE, a |-> a], [fault |-> FALSE, a |-> a]}

\* archetypeAccess.Get with any index: an address is computed, nothing is read
GetAt(m, row, id) ==
    /\ CountOp
    /\ archs[m] # NoArch
    /\ archs' = archs
    /\ lastOp' = [op |-> "GetAt", mask |-> m, row |-> row, id |-> id,
                  fault |-> FALSE, ret |-> ArchetypeGet(archs[m], row, id)]
    /\ WorldUntouched

ZeroAt(m, row, id) ==
    /\ CountOp
    /\ archs[m] # NoArch
    /\ \E r \in ArchetypeZeroAt(archs[m], row, id) :
          /\ archs' = [archs EXCEPT ![m] = r.a]
          /\ lastOp' = [op |-> "ZeroAt", mask |-> m, row |-> row, id |-> id,
                        fault |-> r.fault]
    /\ WorldUntouched

RemoveAt(m, row) ==
    /\ CountOp
    /\ archs[m] # NoArch
    /\ \E r \in ArchetypeRemoveAt(archs[m], row) :
          /\ archs' = [archs EXCEPT ![m] = r.a]
          /\ lastOp' = [op |-> "RemoveAt", mask |-> m, row |-> row,
                        fault |-> r.fault, ret |-> r.swapped]
    /\ WorldUntouched

NextBounds ==
    \/ \E m \in Masks, e \in EntityIds, zero \in BOOLEAN : ArchAlloc(m, e, zero)
    \/ \E m \in Masks, row \in RowArgs, id \in CompIds : GetAt(m, row, id)
    \/ \E m \in Masks, row \in RowArgs, id \in CompIds : ZeroAt(m, row, id)
    \/ \E m \in Masks, row \in RowArgs : RemoveAt(m, row)

SpecBounds == InitArch /\ [][NextBounds]_vars

---------------------------------------------------------------------------
(* World.Entity: the entity id pool *)

\* World.Entity: the id handed out and the pool after it
WorldEntity(next, live, free) ==
    IF free = {}
    THEN [val |-> next, nextEntityID |-> next + 1,
          liveEntitieIDs |-> live \cup {next}, freeEntitieIDs |-> free]
    ELSE LET last == Max(free)
         IN  [val |-> last, nextEntityID |-> next,
              liveEntitieIDs |-> live \cup {last},
              freeEntitieIDs |-> free \ {last}]

\* the liveness check of a handle
IsAlive(e) == e \in liveEntitieIDs

---------------------------------------------------------------------------
(* The engine facade *)

\* the archetype of a mask, created on first request
GetOrCreate(mask) ==
    IF archs[mask] = NoArch
    THEN ArchetypeInit(capacityIncrement, TRUE, SortedIds(mask))
    ELSE archs[mask]

RECURSIVE CopyShared(_, _, _, _, _)
\* copy every component of ids from row srcRow of src to row dstRow of dst
CopyShared(dst, dstRow, src, srcRow, ids) ==
    IF ids = {} THEN dst
    ELSE LET id == Min(ids)
             v  == Deref(src, ArchetypeGet(src, srcRow, id))
         IN  CopyShared(ArchetypeSet(dst, dstRow, id, v), dstRow, src, srcRow,
                        ids \ {id})

RECURSIVE WriteInit(_, _, _, _)
\* write the user-provided values init[id], for the ids that have one
WriteInit(dst, dstRow, init, ids) ==
    IF ids = {} THEN dst
    ELSE LET id == Min(ids)
         IN  WriteInit(ArchetypeSet(dst, dstRow, id, init[id]), dstRow, init,
                       ids \ {id})

\* the index after the row of an archetype was swap-removed: the entity moved
\* into the row, if any, gets that row
FixSwapped(idx, removed, m, row) ==
    IF removed.swapped
    THEN [idx EXCEPT ![GetEntity(removed.a, row)] = [arch |-> m, row |-> row]]
    ELSE idx

\* what the swap-remove of e's row returns
SourceRemoved(e) == ArchetypeRemove(archs[index[e].arch], index[e].row)

\* move live entity e to the archetype of newMask; init gives the values of
\* the ids that e did not have
MoveEntity(e, newMask, init) ==
    LET srcMask == index[e].arch
        row     == index[e].row
        src     == archs[srcMask]
        alloc   == ArchetypeAlloc(GetOrCreate(newMask), e, TRUE)
        dst1    == CopyShared(alloc.a, alloc.idx, src, row, srcMask \cap newMask)
        dst2    == WriteInit(dst1, alloc.idx, init, DOMAIN init)
        removed == SourceRemoved(e)
    IN  /\ archs' = [archs EXCEPT ![srcMask] = removed.a, ![newMask] = dst2]
        /\ index' = [FixSwapped(index, removed, srcMask, row)
                       EXCEPT ![e] = [arch |-> newMask, row |-> alloc.idx]]

Rejected == UNCHANGED <<archs, index, liveEntitieIDs, freeEntitieIDs, nextEntityID>>

AddResult_NoDuplicateCheck(e, ids) ==
    IF ~IsAlive(e) THEN "Dead" ELSE "ok"

\* the outcome of add(e, ids...)
AddResult(e, ids) ==
    IF ~IsAlive(e) THEN "Dead"
    ELSE IF ids \cap index[e].arch # {} THEN "DuplicateComponent"
    ELSE "ok"

\* the outcome of remove(e, ids...)
RemoveResult(e, ids) ==
    IF ~IsAlive(e) THEN "Dead"
    ELSE IF ~(ids \subseteq index[e].arch) THEN "MissingComponent"
    ELSE "ok"

SetResult_DeadAsMissing(e, id) ==
    IF ~IsAlive(e) THEN "MissingComponent"
    ELSE IF id \notin index[e].arch THEN "MissingComponent"
    ELSE "ok"

\* the outcome of set(e, id, src)
SetResult(e, id) ==
    IF ~IsAlive(e) THEN "Dead"
    ELSE IF id \notin index[e].arch THEN "MissingComponent"
    ELSE "ok"

\* the outcome of destroy(e)
DestroyResult(e) == IF ~IsAlive(e) THEN "Dead" ELSE "ok"

Init ==
    /\ capacityIncrement \in 1 .. MaxCapInc
    /\ archs = [m \in Masks |-> NoArch]
    /\ index = [e \in EntityIds |-> NoEntry]
    /\ liveEntitieIDs = {}
    /\ freeEntitieIDs = {}
    /\ nextEntityID = 0
    /\ lastOp = [op |-> "Init"]
    /\ rt = NoRT
    /\ steps = 0
    /\ nodes = <<>>
    /\ registry = <<>>
    /\ NoSystems

CreateEntity(ids) ==
    /\ CountOp
    /\ freeEntitieIDs # {} \/ nextEntityID < MaxIds
    /\ LET p     == WorldEntity(nextEntityID, liveEntitieIDs, freeEntitieIDs)
           alloc == ArchetypeAlloc(GetOrCreate(ids), p.val, TRUE)
       IN  /\ nextEntityID' = p.nextEntityID
           /\ liveEntitieIDs' = p.liveEntitieIDs
           /\ freeEntitieIDs' = p.freeEntitieIDs
           /\ archs' = [archs EXCEPT ![ids] = alloc.a]
           /\ index' = [index EXCEPT ![p.val] = [arch |-> ids, row |-> alloc.idx]]
           /\ lastOp' = [op |-> "CreateEntity", ids |-> ids, ret |-> p.val]
    /\ rt' = NoRT
    /\ UNCHANGED <<capacityIncrement, nodes, registry>>
    /\ UNCHANGED sysvars

\* add(e, ids...); init holds the user-provided values, for the ids that
\* have one (the others are left zero-initialized)
AddComponents(e, ids, init) ==
    /\ CountOp
    /\ LET res == AddResult(e, ids)
       IN  IF res # "ok"
           THEN /\ Rejected
                /\ lastOp' = [op |-> "AddComponents", e |-> e, ids |-> ids,
                              ret |-> res]
                /\ rt' = NoRT
           ELSE /\ MoveEntity(e, index[e].arch \cup ids, init)
                /\ UNCHANGED <<liveEntitieIDs, freeEntitieIDs, nextEntityID>>
                /\ lastOp' = [op |-> "AddComponents", e |-> e, ids |-> ids,
                              init |-> init, ret |-> res,
                              swapped |-> SourceRemoved(e).swapped]
                /\ rt' = [stage |-> "added", e |-> e, ids |-> ids,
                          mask |-> index[e].arch,
                          vals |-> [id \in index[e].arch |->
                                      ValueAt(archs[index[e].arch], index[e].row, id)]]
    /\ UNCHANGED <<capacityIncrement, nodes, registry>>
    /\ UNCHANGED sysvars

RemoveComponents(e, ids) ==
    /\ CountOp
    /\ LET res == RemoveResult(e, ids)
       IN  IF res # "ok"
           THEN /\ Rejected
                /\ lastOp' = [op |-> "RemoveComponents", e |-> e, ids |-> ids,
                              ret |-> res]
                /\ rt' = NoRT
           ELSE /\ MoveEntity(e, index[e].arch \ ids, <<>>)
                /\ UNCHANGED <<liveEntitieIDs, freeEntitieIDs, nextEntityID>>
                /\ lastOp' = [op |-> "RemoveComponents", e |-> e, ids |-> ids,
                              ret |-> res,
                              swapped |-> SourceRemoved(e).swapped]
                /\ rt' = IF rt.stage = "added" /\ rt.e = e /\ rt.ids = ids
                         THEN [rt EXCEPT !.stage = "removed"]
                         ELSE NoRT
    /\ UNCHANGED <<capacityIncrement, nodes, registry>>
    /\ UNCHANGED sysvars

SetComponent(e, id, v) ==
    /\ CountOp
    /\ LET res == SetResult(e, id)
       IN  IF res # "ok"
           THEN /\ Rejected
                /\ lastOp' = [op |-> "Set", e |-> e, id |-> id, ret |-> res]
           ELSE /\ archs' = [archs EXCEPT ![index[e].arch] =
                               ArchetypeSet(@, index[e].row, id, v)]
                /\ UNCHANGED <<index, liveEntitieIDs, freeEntitieIDs, nextEntityID>>
                /\ lastOp' = [op |-> "Set", e |-> e, id |-> id, v |-> v,
                              ret |-> res]
    /\ rt' = NoRT
    /\ UNCHANGED <<capacityIncrement, nodes, registry>>
    /\ UNCHANGED sysvars

DestroyEntity(e) ==
    /\ CountOp
    /\ LET res == DestroyResult(e)
       IN  IF res # "ok"
           THEN /\ Rejected
                /\ lastOp' = [op |-> "DestroyEntity", e |-> e, ret |-> res]
           ELSE LET m       == index[e].arch
                    row     == index[e].row
                    removed == SourceRemoved(e)
                IN  /\ archs' = [archs EXCEPT ![m] = removed.a]
                    /\ index' = [FixSwapped(index, removed, m, row)
                                   EXCEPT ![e] = NoEntry]
                    /\ liveEntitieIDs' = liveEntitieIDs \ {e}
                    /\ freeEntitieIDs' = freeEntitieIDs \cup {e}
                    /\ UNCHANGED nextEntityID
                    /\ lastOp' = [op |-> "DestroyEntity", e |-> e, ret |-> res,
                                  swapped |-> removed.swapped]
    /\ rt' = NoRT
    /\ UNCHANGED <<capacityIncrement, nodes, registry>>
    /\ UNCHANGED sysvars

\* Get in the world (A, I, L): the value behind the returned pointer, NoValue
\* for a null pointer
GetIn(A, I, L, e, id) ==
    IF e \notin L THEN NoValue
    ELSE ValueAt(A[I[e].arch], I[e].row, id)

\* Has in the world (A, I, L): tests the mask
HasIn(A, I, L, e, id) == e \in L /\ id \in A[I[e].arch].Mask

Get(e, id) == GetIn(archs, index, liveEntitieIDs, e, id)
Has(e, id) == HasIn(archs, index, liveEntitieIDs, e, id)

WorldCompIds == {id \in CompIds : id < MaxWorldComps}
WorldMasks == SUBSET WorldCompIds

Next ==
    \/ \E ids \in WorldMasks : CreateEntity(ids)
    \/ \E e \in EntityIds, ids \in WorldMasks \ {{}} :
          \E given \in SUBSET ids :
             \E init \in [given -> Vals] : AddComponents(e, ids, init)
    \/ \E e \in EntityIds, ids \in WorldMasks \ {{}} : RemoveComponents(e, ids)
    \/ \E e \in EntityIds, id \in WorldCompIds, v \in Vals : SetComponent(e, id, v)
    \/ \E e \in EntityIds : DestroyEntity(e)

Spec == Init /\ [][Next]_vars

---------------------------------------------------------------------------
(* The engine facade over a sized component and a zero-sized tag *)

\* the component ids with a zero-sized type
TagIds == {id \in CompIds : CompSize[id + 1] = 0}

\* position and the tag
TagWorldCompIds == {0} \cup TagIds
TagWorldMasks == SUBSET TagWorldCompIds

NextTags ==
    \/ \E ids \in TagWorldMasks : CreateEntity(ids)
    \/ \E e \in EntityIds, ids \in TagWorldMasks \ {{}} :
          \E given \in SUBSET ids :
             \E init \in [given -> Vals] : AddComponents(e, ids, init)
    \/ \E e \in EntityIds, ids \in TagWorldMasks \ {{}} : RemoveComponents(e, ids)
    \/ \E e \in EntityIds, id \in TagWorldCompIds, v \in Vals : SetComponent(e, id, v)
    \/ \E e \in EntityIds : DestroyEntity(e)

SpecTags == Init /\ [][NextTags]_vars

---------------------------------------------------------------------------
(* The archetype graph (archetypeNode of archetype.go).  A node pointer is *)
(* the node's position in nodes; NilNode is the nil pointer.  The root,    *)
(* the node of the empty mask, is node 1.                                  *)

\* nodes the graph may hold
MaxNodes == 8

NilNode == 0
RootNode == 1

newArchetypeNode_EmptyMask(mask) ==
    [mask     |-> {},
     toAdd    |-> [id \in CompIds |-> NilNode],
     toRemove |-> [id \in CompIds |-> NilNode]]

\* newArchetypeNode
newArchetypeNode(mask) ==
    [mask     |-> mask,
     toAdd    |-> [id \in CompIds |-> NilNode],
     toRemove |-> [id \in CompIds |-> NilNode]]

\* archetypeNode.GetTransitionAdd / GetTransitionRemove: the pointer p; the
\* second result of the code is p # NilNode
GetTransitionAdd(n, id) == n.toAdd[id]
GetTransitionRemove(n, id) == n.toRemove[id]

\* archetypeNode.SetTransitionAdd
SetTransitionAdd(n, id, to) == [n EXCEPT !.toAdd[id] = to]

SetTransitionRemove_Dropped(n, id, to) == n

\* archetypeNode.SetTransitionRemove
SetTransitionRemove(n, id, to) == [n EXCEPT !.toRemove[id] = to]

\* the global mask -> node table: the node of a mask, NilNode when absent
FindNode(ns, mask) ==
    IF \E i \in 1 .. Len(ns) : ns[i].mask = mask
    THEN CHOOSE i \in 1 .. Len(ns) : ns[i].mask = mask
    ELSE NilNode

\* the node of a mask, created (with its archetype) when the table lacks it
FindOrCreate(ns, mask) ==
    LET found == FindNode(ns, mask)
    IN  IF found # NilNode
        THEN [nodes |-> ns, ret |-> found]
        ELSE [nodes |-> Append(ns, newArchetypeNode(mask)), ret |-> Len(ns) + 1]

\* transition(current_node, id, add?): the cached edge, or the node of the
\* target mask with the edge cached in both directions
Transition(ns, cur, id, add) ==
    LET p == IF add THEN GetTransitionAdd(ns[cur], id)
                    ELSE GetTransitionRemove(ns[cur], id)
    IN  IF p # NilNode
        THEN [nodes |-> ns, ret |-> p]
        ELSE LET target == IF add THEN ns[cur].mask \cup {id}
                                  ELSE ns[cur].mask \ {id}
                 r   == FindOrCreate(ns, target)
                 ns1 == IF add
                        THEN [r.nodes EXCEPT ![cur] = SetTransitionAdd(@, id, r.ret)]
                        ELSE [r.nodes EXCEPT ![cur] = SetTransitionRemove(@, id, r.ret)]
                 ns2 == IF add
                        THEN [ns1 EXCEPT ![r.ret] = SetTransitionRemove(@, id, cur)]
                        ELSE [ns1 EXCEPT ![r.ret] = SetTransitionAdd(@, id, cur)]
             IN  [nodes |-> ns2, ret |-> r.ret]

RECURSIVE Walk(_, _, _)
\* a multi-component transition: single-id add steps over the list ids
Walk(ns, cur, ids) ==
    IF ids = <<>> THEN [nodes |-> ns, ret |-> cur]
    ELSE LET r == Transition(ns, cur, Head(ids), TRUE)
         IN  Walk(r.nodes, r.ret, Tail(ids))

\* the ids of a list, without regard to order
IdsOf(order) == {order[i] : i \in 1 .. Len(order)}

\* resolve the archetype of the requested ids: from the root, over the sorted
\* union of the ids
Resolve(ns, order) == Walk(ns, RootNode, SortedIds(IdsOf(order)))

\* the lists of distinct component ids a caller may pass, in any order
IdOrders ==
    {o \in UNION {[1 .. n -> CompIds] : n \in 0 .. Len(CompSize)} :
        \A i, j \in 1 .. Len(o) : i # j => o[i] # o[j]}

GraphUntouched ==
    /\ UNCHANGED sysvars
    /\ UNCHANGED <<archs, index, liveEntitieIDs, freeEntitieIDs, nextEntityID,
                   capacityIncrement, rt, registry>>

InitGraph ==
    /\ capacityIncrement \in 1 .. MaxCapInc
    /\ archs = [m \in Masks |-> NoArch]
    /\ index = [e \in EntityIds |-> NoEntry]
    /\ liveEntitieIDs = {}
    /\ freeEntitieIDs = {}
    /\ nextEntityID = 0
    /\ lastOp = [op |-> "Init"]
    /\ rt = NoRT
    /\ steps = 0
    /\ nodes = <<newArchetypeNode({})>>
    /\ registry = <<>>
    /\ NoSystems

\* one single-id transition from an existing node; the caller has rejected an
\* id that is already present (add) or absent (remove)
GraphTransition(cur, id, add) ==
    /\ CountOp
    /\ cur \in 1 .. Len(nodes)
    /\ add = (id \notin nodes[cur].mask)
    /\ LET r == Transition(nodes, cur, id, add)
       IN  /\ Len(r.nodes) <= MaxNodes
           /\ nodes' = r.nodes
           /\ lastOp' = [op |-> "GraphTransition", cur |-> cur, id |-> id,
                         add |-> add, ret |-> r.ret]
    /\ GraphUntouched

\* resolve the archetype of a list of ids
GraphResolve(order) ==
    /\ CountOp
    /\ LET r == Resolve(nodes, order)
       IN  /\ Len(r.nodes) <= MaxNodes
           /\ nodes' = r.nodes
           /\ lastOp' = [op |-> "GraphResolve", order |-> order, ret |-> r.ret]
    /\ GraphUntouched

NextGraph ==
    \/ \E cur \in 1 .. MaxNodes, id \in CompIds, add \in BOOLEAN :
          GraphTransition(cur, id, add)
    \/ \E order \in IdOrders : GraphResolve(order)

SpecGraph == InitGraph /\ [][NextGraph]_vars

---------------------------------------------------------------------------
(* The component registry, as used by ComponentID (generic.go) and by      *)
(* resources.Add (resources.go).  A registry maps a type key to its id;   *)
(* the id space is 0 .. MaskTotalBits-1, as wide as the layouts table of   *)
(* an archetype.                                                           *)

MaskTotalBits == Len(CompSize)

\* one type key more than the id space holds
TypeKeys == 0 .. MaskTotalBits

\* the entry of a type key that was never registered
Unregistered == -1

NewComponentRegistry == [tp \in TypeKeys |-> Unregistered]

Registered(reg) == {tp \in TypeKeys : reg[tp] # Unregistered}

NextFreeId_Zero(reg) == 0

\* the next free id: the smallest id no type key has
NextFreeId(reg) ==
    Min((0 .. MaskTotalBits) \ {reg[tp] : tp \in Registered(reg)})

RegistryComponentID_NoLimit(reg, tp) ==
    IF reg[tp] # Unregistered
    THEN [registry |-> reg, id |-> reg[tp], err |-> "ok"]
    ELSE [registry |-> [reg EXCEPT ![tp] = NextFreeId(reg)],
          id |-> NextFreeId(reg), err |-> "ok"]

\* the registry's lookup of a type key, registering it on first lookup
RegistryComponentID(reg, tp) ==
    IF reg[tp] # Unregistered
    THEN [registry |-> reg, id |-> reg[tp], err |-> "ok"]
    ELSE IF NextFreeId(reg) >= MaskTotalBits
    THEN [registry |-> reg, id |-> Unregistered, err |-> "TooManyComponentTypes"]
    ELSE [registry |-> [reg EXCEPT ![tp] = NextFreeId(reg)],
          id |-> NextFreeId(reg), err |-> "ok"]

\* ComponentID[T](w): w.componentID(tp)
ComponentID(w, tp) == RegistryComponentID(w, tp)

\* resources handed to resources.Add are the pointers 1 .. MaxRes
MaxRes == 2
ResVals == 1 .. MaxRes
\* the nil entry of the resources slice
NilRes == 0

\* newResources
newResources ==
    [registry  |-> NewComponentRegistry,
     resources |-> [id \in 0 .. (MaskTotalBits - 1) |-> NilRes]]

ResourcesAdd_Overwrites(r, tp, res) ==
    LET c == RegistryComponentID(r.registry, tp)
    IN  IF c.err # "ok" THEN [r |-> r, id |-> c.id, err |-> c.err]
        ELSE IF c.id \notin DOMAIN r.resources
        THEN [r |-> [r EXCEPT !.registry = c.registry], id |-> c.id,
              err |-> "panic"]
        ELSE [r |-> [registry  |-> c.registry,
                     resources |-> [r.resources EXCEPT ![c.id] = res]],
              id |-> c.id, err |-> "ok"]

\* resources.Add of the resource res whose type has key tp; indexing beyond
\* the resources slice and adding a type twice panic
ResourcesAdd(r, tp, res) ==
    LET c == RegistryComponentID(r.registry, tp)
    IN  IF c.err # "ok" THEN [r |-> r, id |-> c.id, err |-> c.err]
        ELSE IF c.id \notin DOMAIN r.resources \/ r.resources[c.id] # NilRes
        THEN [r |-> [r EXCEPT !.registry = c.registry], id |-> c.id,
              err |-> "panic"]
        ELSE [r |-> [registry  |-> c.registry,
                     resources |-> [r.resources EXCEPT ![c.id] = res]],
              id |-> c.id, err |-> "ok"]

\* resources.Get
ResourcesGet(r, id) == r.resources[id]

\* resources.Has
ResourcesHas(r, id) == r.resources[id] # NilRes

RegistryUntouched ==
    /\ UNCHANGED sysvars
    /\ UNCHANGED <<archs, index, liveEntitieIDs, freeEntitieIDs, nextEntityID,
                   capacityIncrement, rt, nodes>>

\* the world's component registry and its resources, after construction
InitRegistry ==
    /\ capacityIncrement \in 1 .. MaxCapInc
    /\ archs = [m \in Masks |-> NoArch]
    /\ index = [e \in EntityIds |-> NoEntry]
    /\ liveEntitieIDs = {}
    /\ freeEntitieIDs = {}
    /\ nextEntityID = 0
    /\ lastOp = [op |-> "Init"]
    /\ rt = NoRT
    /\ steps = 0
    /\ nodes = <<>>
    /\ registry = [components |-> NewComponentRegistry, resources |-> newResources]
    /\ NoSystems

\* ComponentID[T](w) for the type with key tp
RegisterComponent(tp) ==
    /\ CountOp
    /\ LET c == ComponentID(registry.components, tp)
       IN  /\ registry' = [registry EXCEPT !.components = c.registry]
           /\ lastOp' = [op |-> "ComponentID", tp |-> tp, id |-> c.id,
                         err |-> c.err]
    /\ RegistryUntouched

\* resources.Add of the resource res of the type with key tp
AddResource(tp, res) ==
    /\ CountOp
    /\ LET c == ResourcesAdd(registry.resources, tp, res)
       IN  /\ registry' = [registry EXCEPT !.resources = c.r]
           /\ lastOp' = [op |-> "ResourcesAdd", tp |-> tp, res |-> res,
                         id |-> c.id,
                         err |-> c.err]
    /\ RegistryUntouched

NextRegistry ==
    \/ \E tp \in TypeKeys : RegisterComponent(tp)
    \/ \E tp \in TypeKeys, res \in ResVals : AddResource(tp, res)

SpecRegistry == InitRegistry /\ [][NextRegistry]_vars

---------------------------------------------------------------------------
(* The id pool of World (World.Entity, World.EntityFromU32, World.Entities
   and World.Reset), from the state NewWorld leaves *)

\* entity values are 0 .. MaxEntityVal
MaxEntityVal == 5
EntityVals == 0 .. MaxEntityVal
\* the value of the built-in dead entity: the largest entity value
DeadEntityID == MaxEntityVal
\* World.Entities is called with a count of 0 .. MaxCount
MaxCount == 2

\* World.EntityFromU32: the handle and the pool after it
WorldEntityFromU32(next, live, free, val) ==
    IF val \in live
    THEN [val |-> val, nextEntityID |-> next,
          liveEntitieIDs |-> live, freeEntitieIDs |-> free]
    ELSE [val |-> val, nextEntityID |-> next,
          liveEntitieIDs |-> live \cup {val}, freeEntitieIDs |-> free \ {val}]

RECURSIVE WorldEntities(_, _, _, _)
\* World.Entities: count calls of World.Entity; vals lists the handles
WorldEntities(next, live, free, count) ==
    IF count = 0
    THEN [vals |-> <<>>, nextEntityID |-> next,
          liveEntitieIDs |-> live, freeEntitieIDs |-> free]
    ELSE LET e == WorldEntity(next, live, free)
             r == WorldEntities(e.nextEntityID, e.liveEntitieIDs,
                                e.freeEntitieIDs, count - 1)
         IN  [r EXCEPT !.vals = <<e.val>> \o r.vals]

\* NewWorld: the zero entity, the resource entity and the dead entity
NewWorld ==
    LET zero == WorldEntity(0, {}, {})
        res  == WorldEntity(zero.nextEntityID, zero.liveEntitieIDs,
                            zero.freeEntitieIDs)
    IN  WorldEntityFromU32(res.nextEntityID, res.liveEntitieIDs,
                           res.freeEntitieIDs, DeadEntityID)

PoolUntouched ==
    /\ UNCHANGED sysvars
    /\ UNCHANGED <<archs, index, capacityIncrement, rt, steps, nodes, registry>>

InitEntities ==
    /\ capacityIncrement \in 1 .. MaxCapInc
    /\ archs = [m \in Masks |-> NoArch]
    /\ index = [e \in EntityIds |-> NoEntry]
    /\ liveEntitieIDs = NewWorld.liveEntitieIDs
    /\ freeEntitieIDs = NewWorld.freeEntitieIDs
    /\ nextEntityID = NewWorld.nextEntityID
    /\ lastOp = [op |-> "NewWorld"]
    /\ rt = NoRT
    /\ steps = 0
    /\ nodes = <<>>
    /\ registry = <<>>
    /\ NoSystems

\* w.Entity(), while the counter stays below the largest entity value
Entity ==
    /\ freeEntitieIDs # {} \/ nextEntityID < MaxEntityVal
    /\ LET e == WorldEntity(nextEntityID, liveEntitieIDs, freeEntitieIDs)
       IN  /\ nextEntityID' = e.nextEntityID
           /\ liveEntitieIDs' = e.liveEntitieIDs
           /\ freeEntitieIDs' = e.freeEntitieIDs
           /\ lastOp' = [op |-> "Entity", ret |-> e.val]
    /\ PoolUntouched

\* w.EntityFromU32(val)
EntityFromU32(val) ==
    /\ LET e == WorldEntityFromU32(nextEntityID, liveEntitieIDs,
                                   freeEntitieIDs, val)
       IN  /\ nextEntityID' = e.nextEntityID
           /\ liveEntitieIDs' = e.liveEntitieIDs
           /\ freeEntitieIDs' = e.freeEntitieIDs
           /\ lastOp' = [op |-> "EntityFromU32", val |-> val, ret |-> e.val]
    /\ PoolUntouched

\* w.Entities(count)
Entities(count) ==
    /\ freeEntitieIDs # {} \/ nextEntityID + count <= MaxEntityVal
    /\ LET r == WorldEntities(nextEntityID, liveEntitieIDs, freeEntitieIDs,
                              count)
       IN  /\ nextEntityID' = r.nextEntityID
           /\ liveEntitieIDs' = r.liveEntitieIDs
           /\ freeEntitieIDs' = r.freeEntitieIDs
           /\ lastOp' = [op |-> "Entities", count |-> count, ret |-> r.vals]
    /\ PoolUntouched

\* w.Reset(): every live id is looked up again, then both sets are cleared
Reset ==
    /\ liveEntitieIDs' = {}
    /\ freeEntitieIDs' = {}
    /\ nextEntityID' = nextEntityID
    /\ lastOp' = [op |-> "Reset"]
    /\ PoolUntouched

NextEntities ==
    \/ Entity
    \/ \E val \in EntityVals : EntityFromU32(val)
    \/ \E count \in 0 .. MaxCount : Entities(count)
    \/ Reset

SpecEntities == InitEntities /\ [][NextEntities]_vars

---------------------------------------------------------------------------
(* The systems of World: AddSystems, RemoveSystems, DisableSystem,
   EnableSystem and Tick.  A systemRunner is a record; the maps leftToRun
   and notRunWithDependenciesDone hold pointers to the runners of
   World.systems and are the sets of their ids.  World.Tick is one
   goroutine that starts one goroutine per system and waits for them, so it
   is a sequence of steps: TickBegin, then TickSpawn, GoTick and GoDone per
   goroutine, TickJoin, and again from TickSpawn, until TickReturn. *)

\* the systems a program registers
MaxSystems == 3
SystemNames == 1 .. MaxSystems
\* calls of World.Tick in one run
MaxTicks == 2
\* the calls of one system's Tick within one World.Tick are counted up to
\* MaxCalls
MaxCalls == 3

\* the id of the registered system called name, NoSystem when there is none
NoSystem == 0
FindSystem(name) ==
    IF \E id \in DOMAIN systems : systems[id].name = name
    THEN CHOOSE id \in DOMAIN systems : systems[id].name = name
    ELSE NoSystem

\* not part of the world's systems and its Tick
SystemsOnly ==
    UNCHANGED <<archs, index, liveEntitieIDs, freeEntitieIDs, nextEntityID,
                capacityIncrement, rt, steps, nodes, registry>>

InitSystems ==
    /\ capacityIncrement = 1
    /\ archs = [m \in Masks |-> NoArch]
    /\ index = [e \in EntityIds |-> NoEntry]
    /\ liveEntitieIDs = NewWorld.liveEntitieIDs
    /\ freeEntitieIDs = NewWorld.freeEntitieIDs
    /\ nextEntityID = NewWorld.nextEntityID
    /\ lastOp = [op |-> "NewWorld"]
    /\ rt = NoRT
    /\ steps = 0
    /\ nodes = <<>>
    /\ registry = <<>>
    /\ NoSystems

\* w.AddSystems(s) for a system s with Name() = name and ReliesOn() = relies
AddSystems(name, relies) ==
    /\ tick.pc = "idle"
    /\ IF FindSystem(name) # NoSystem
       THEN /\ lastOp' = [op |-> "AddSystems", name |-> name, err |-> "added"]
            /\ UNCHANGED <<systems, nextSystemID>>
       ELSE IF \E r \in relies : FindSystem(r) = NoSystem
       THEN /\ lastOp' = [op |-> "AddSystems", name |-> name, err |-> "relies"]
            /\ UNCHANGED <<systems, nextSystemID>>
       ELSE LET tmpl == {FindSystem(r) : r \in relies}
                sr   == [id |-> nextSystemID, name |-> name,
                         waitingOnTmpl |-> tmpl, waitingOn |-> tmpl,
                         hasRun |-> FALSE, isDisabled |-> FALSE]
            IN  /\ systems' = systems @@ (nextSystemID :> sr)
                /\ nextSystemID' = nextSystemID + 1
                /\ lastOp' = [op |-> "AddSystems", name |-> name, err |-> "nil"]
    /\ UNCHANGED <<leftToRun, notRunWithDependenciesDone, tickCount, tick>>
    /\ SystemsOnly

\* w.RemoveSystems(s) for a system s with Name() = name
RemoveSystems(name) ==
    /\ tick.pc = "idle"
    /\ LET found == FindSystem(name)
           reliedOnBy == {id \in DOMAIN systems : found = id}
       IN  IF found = NoSystem
           THEN /\ lastOp' = [op |-> "RemoveSystems", name |-> name,
                              err |-> "not found"]
                /\ systems' = systems
           ELSE IF reliedOnBy # {}
           THEN /\ lastOp' = [op |-> "RemoveSystems", name |-> name,
                              err |-> "relied on"]
                /\ systems' = systems
           ELSE /\ lastOp' = [op |-> "RemoveSystems", name |-> name,
                              err |-> "nil"]
                /\ systems' = [id \in DOMAIN systems \ {found} |-> systems[id]]
    /\ UNCHANGED <<leftToRun, notRunWithDependenciesDone, nextSystemID,
                   tickCount, tick>>
    /\ SystemsOnly

\* w.DisableSystem(s) for a system s with Name() = name
DisableSystem(name) ==
    /\ tick.pc = "idle"
    /\ LET found == FindSystem(name)
       IN  IF found = NoSystem
           THEN /\ lastOp' = [op |-> "DisableSystem", name |-> name,
                              err |-> "not found"]
                /\ systems' = systems
           ELSE /\ lastOp' = [op |-> "DisableSystem", name |-> name,
                              err |-> "nil"]
                /\ systems' = [systems EXCEPT ![found].isDisabled = TRUE]
    /\ UNCHANGED <<leftToRun, notRunWithDependenciesDone, nextSystemID,
                   tickCount, tick>>
    /\ SystemsOnly

\* w.EnableSystem(s) for a system s with Name() = name
EnableSystem(name) ==
    /\ tick.pc = "idle"
    /\ LET found == FindSystem(name)
       IN  IF found = NoSystem
           THEN /\ lastOp' = [op |-> "EnableSystem", name |-> name,
                              err |-> "not found"]
                /\ systems' = systems
           ELSE /\ lastOp' = [op |-> "EnableSystem", name |-> name,
                              err |-> "nil"]
                /\ systems' = [systems EXCEPT ![found].isDisabled = FALSE]
    /\ UNCHANGED <<leftToRun, notRunWithDependenciesDone, nextSystemID,
                   tickCount, tick>>
    /\ SystemsOnly

\* World.Tick is called: leftToRun is filled with the enabled systems
TickBegin ==
    /\ tick.pc = "idle"
    /\ tickCount < MaxTicks
    /\ leftToRun' = leftToRun
                      \cup {id \in DOMAIN systems : ~systems[id].isDisabled}
    /\ tick' = [pc |-> "loop", spawned |-> {}, ticking |-> {},
                calls |-> [id \in DOMAIN systems |-> 0]]
    /\ lastOp' = [op |-> "TickBegin"]
    /\ UNCHANGED <<systems, notRunWithDependenciesDone, nextSystemID, tickCount>>
    /\ SystemsOnly

\* one pass of the loop up to tickWaitGroup.Wait(): the systems of leftToRun
\* that have not run and wait on nothing join notRunWithDependenciesDone,
\* and one goroutine is started for every member of that map
TickSpawn ==
    /\ tick.pc = "loop"
    /\ leftToRun # {}
    /\ LET ready == {id \in leftToRun :
                        ~systems[id].hasRun /\ systems[id].waitingOn = {}}
       IN  /\ notRunWithDependenciesDone' = notRunWithDependenciesDone \cup ready
           /\ tick' = [tick EXCEPT !.pc = "wait",
                                   !.spawned = notRunWithDependenciesDone \cup ready]
    /\ lastOp' = [op |-> "TickSpawn"]
    /\ UNCHANGED <<systems, leftToRun, nextSystemID, tickCount>>
    /\ SystemsOnly

\* the goroutine of system id calls sr.system.Tick(w)
GoTick(id) ==
    /\ id \in tick.spawned
    /\ tick' = [tick EXCEPT !.spawned = @ \ {id},
                            !.ticking = @ \cup {id},
                            !.calls[id] = Min({@ + 1, MaxCalls})]
    /\ lastOp' = [op |-> "GoTick", id |-> id]
    /\ UNCHANGED <<systems, leftToRun, notRunWithDependenciesDone,
                   nextSystemID, tickCount>>
    /\ SystemsOnly

\* sr.system.Tick(w) returns: hasRun is set and the wait group is released
GoDone(id) ==
    /\ id \in tick.ticking
    /\ systems' = [systems EXCEPT ![id].hasRun = TRUE]
    /\ tick' = [tick EXCEPT !.ticking = @ \ {id}]
    /\ lastOp' = [op |-> "GoDone", id |-> id]
    /\ UNCHANGED <<leftToRun, notRunWithDependenciesDone, nextSystemID, tickCount>>
    /\ SystemsOnly

\* after tickWaitGroup.Wait(): every member of notRunWithDependenciesDone is
\* deleted from the waitingOn of the runners left to run and from leftToRun
TickJoin ==
    /\ tick.pc = "wait"
    /\ tick.spawned = {}
    /\ tick.ticking = {}
    /\ systems' = [id \in DOMAIN systems |->
                     IF id \in leftToRun
                     THEN [systems[id] EXCEPT
                             !.waitingOn = @ \ notRunWithDependenciesDone]
                     ELSE systems[id]]
    /\ leftToRun' = leftToRun \ notRunWithDependenciesDone
    /\ tick' = [tick EXCEPT !.pc = "loop"]
    /\ lastOp' = [op |-> "TickJoin"]
    /\ UNCHANGED <<notRunWithDependenciesDone, nextSystemID, tickCount>>
    /\ SystemsOnly

\* leftToRun is empty: the reset for the next tick, and the return
TickReturn ==
    /\ tick.pc = "loop"
    /\ leftToRun = {}
    /\ leftToRun' = {}
    /\ notRunWithDependenciesDone' = {}
    /\ systems' = [id \in DOMAIN systems |->
                     [systems[id] EXCEPT
                        !.waitingOn = @ \cup systems[id].waitingOnTmpl,
                        !.hasRun = FALSE]]
    /\ tickCount' = tickCount + 1
    /\ tick' = [tick EXCEPT !.pc = "idle"]
    /\ lastOp' = [op |-> "TickReturn"]
    /\ UNCHANGED nextSystemID
    /\ SystemsOnly

\* the steps of a running World.Tick and of its goroutines
TickStep ==
    \/ TickSpawn
    \/ \E id \in 1 .. MaxSystems : GoTick(id)
    \/ \E id \in 1 .. MaxSystems : GoDone(id)
    \/ TickJoin
    \/ TickReturn

NextSystems ==
    \/ \E name \in SystemNames, relies \in SUBSET SystemNames :
          AddSystems(name, relies)
    \/ \E name \in SystemNames : RemoveSystems(name)
    \/ \E name \in SystemNames : DisableSystem(name)
    \/ \E name \in SystemNames : EnableSystem(name)
    \/ TickBegin
    \/ TickStep

SpecSystems == InitSystems /\ [][NextSystems]_vars

\* the scheduler runs every goroutine that can run, and a system's Tick
\* returns
SpecSystemsFair == SpecSystems /\ WF_vars(TickStep)

---------------------------------------------------------------------------
(* Claims on one archetype (SpecArch) *)

Created == {m \in Masks : archs[m] # NoArch}

\* C2 as stated: len equals the entities column's length (the component
\* columns have no length of their own: they share len), and every component
\* column has capacity cap.
C2_EveryColumnHasCap ==
    \A m \in Created :
        LET a == archs[m]
        IN  /\ a.len = a.entities.len
            /\ \A i \in 1 .. Len(a.Ids) : Len(a.buffers[i]) = a.cap

\* C2 amended: after any sequence of Alloc, Add and Remove, len equals
\* the entities column's length, every component column of non-zero item
\* size has capacity cap, and len <= cap.
C2_LenAndSizedColumnCap ==
    \A m \in Created :
        LET a == archs[m]
        IN  /\ a.len = a.entities.len
            /\ a.len <= a.cap
            /\ \A i \in 1 .. Len(a.Ids) :
                  a.layouts[a.Ids[i]].itemSize > 0 => Len(a.buffers[i]) = a.cap

C2_Witness ==
    /\ lastOp.op = "ArchRemove"
    /\ LET a == archs[lastOp.mask]
       IN  /\ a.len >= 1
           /\ a.cap > capacityIncrement
           /\ \E i \in 1 .. Len(a.Ids) : a.layouts[a.Ids[i]].itemSize > 0

\* C3: remove(row) with row < len puts the last row's entity and component
\* values at row, decrements len, leaves the other rows below the new len
\* unchanged, and returns TRUE exactly when row < len-1.
C3_RemoveStep ==
    lastOp'.op = "ArchRemove" =>
        LET a   == archs[lastOp'.mask]
            b   == archs'[lastOp'.mask]
            row == lastOp'.row
        IN  /\ b.len = a.len - 1
            /\ lastOp'.ret = (row < a.len - 1)
            /\ GetEntity(b, row) = GetEntity(a, a.len - 1)
            /\ \A id \in CompIds : ValueAt(b, row, id) = ValueAt(a, a.len - 1, id)
            /\ \A r \in 0 .. (b.len - 1) :
                  r # row =>
                     /\ GetEntity(b, r) = GetEntity(a, r)
                     /\ \A id \in CompIds : ValueAt(b, r, id) = ValueAt(a, r, id)

C3_SwapRemove == [][C3_RemoveStep]_vars

C3_Witness ==
    /\ lastOp.op = "ArchRemove"
    /\ lastOp.ret = TRUE
    /\ lastOp.row = 0
    /\ LET a == archs[lastOp.mask]
       IN  /\ a.len = 2
           /\ ValueAt(a, 0, 0) = 1
           /\ ValueAt(a, 1, 0) = 0

AddedComponents == lastOp.op = "ArchAdd" /\ ~lastOp.panic

\* C4 as stated: add with exactly |ids| components returns the previous len,
\* the entity at that row is the given one, and every id of the archetype
\* holds a value that was supplied for it.
C4_AddStep_Stated ==
    (lastOp'.op = "ArchAdd" /\ ~lastOp'.panic) =>
        LET a  == archs[lastOp'.mask]
            b  == archs'[lastOp'.mask]
            cs == lastOp'.components
        IN  /\ lastOp'.ret = a.len
            /\ GetEntity(b, lastOp'.ret) = lastOp'.entity
            /\ \A k \in 1 .. Len(b.Ids) :
                  \E i \in 1 .. Len(cs) :
                     /\ cs[i].ID = b.Ids[k]
                     /\ b.layouts[cs[i].ID].itemSize > 0
                           => ValueAt(b, lastOp'.ret, cs[i].ID) = cs[i].Comp

C4_AddHoldsSupplied_Stated == [][C4_AddStep_Stated]_vars

\* C4 amended: add with one component for each id of the archetype (hence
\* exactly |ids| components) returns the previous len, the entity at that row
\* is the given one, and get(row, id) holds the supplied value for every id
\* of the archetype.
C4_AddStep ==
    (lastOp'.op = "ArchAdd" /\ ~lastOp'.panic) =>
        LET a  == archs[lastOp'.mask]
            b  == archs'[lastOp'.mask]
            cs == lastOp'.components
        IN  {cs[i].ID : i \in 1 .. Len(cs)} = b.Mask =>
               /\ lastOp'.ret = a.len
               /\ b.len = a.len + 1
               /\ GetEntity(b, lastOp'.ret) = lastOp'.entity
               /\ \A i \in 1 .. Len(cs) :
                     b.layouts[cs[i].ID].itemSize > 0
                        => ValueAt(b, lastOp'.ret, cs[i].ID) = cs[i].Comp

C4_AddHoldsSupplied == [][C4_AddStep]_vars

C4_Witness ==
    /\ AddedComponents
    /\ LET a  == archs[lastOp.mask]
           cs == lastOp.components
       IN  /\ Len(cs) = 2
           /\ {cs[i].ID : i \in 1 .. Len(cs)} = a.Mask
           /\ lastOp.ret = 2
           /\ cs[1].ID > cs[2].ID
           /\ cs[1].Comp = 1
           /\ a.layouts[cs[1].ID].itemSize > 0

---------------------------------------------------------------------------
(* Claims on the world (Spec) *)

\* a structural operation that went through: its entity is lastOp.e
Structural(op) ==
    /\ op.op \in {"AddComponents", "RemoveComponents", "DestroyEntity"}
    /\ op.ret = "ok"

\* C1: for every live entity e with index entry (A, r), the entities column
\* of A holds e at row r.
C1_IndexMatchesEntitiesColumn ==
    \A e \in liveEntitieIDs :
        /\ index[e] # NoEntry
        /\ archs[index[e].arch] # NoArch
        /\ index[e].row < archs[index[e].arch].len
        /\ GetEntity(archs[index[e].arch], index[e].row) = e

C1_Witness ==
    /\ Structural(lastOp)
    /\ lastOp.swapped
    /\ \E e \in liveEntitieIDs : e # lastOp.e /\ index[e].row = 0

\* C5: a structural operation on entity e leaves what get returns for every
\* other live entity unchanged; when e's row was not the last one the former
\* tail entity is found at the vacated row, and nobody else moves.
C5_StructuralStep ==
    Structural(lastOp') =>
        LET e    == lastOp'.e
            m    == index[e].arch
            row  == index[e].row
            last == archs[m].len - 1
            tail == GetEntity(archs[m], last)
        IN  /\ \A o \in liveEntitieIDs \ {e} :
                  /\ o \in liveEntitieIDs'
                  /\ \A id \in CompIds :
                        GetIn(archs', index', liveEntitieIDs', o, id) = Get(o, id)
                  /\ (row = last \/ o # tail) => index'[o] = index[o]
            /\ row < last => index'[tail] = [arch |-> m, row |-> row]
            /\ lastOp'.swapped = (row < last)

C5_OthersUntouched == [][C5_StructuralStep]_vars

C5_Witness ==
    /\ Structural(lastOp)
    /\ lastOp.swapped
    /\ \E o \in liveEntitieIDs :
          /\ o # lastOp.e
          /\ index[o].row = 0
          /\ \E id \in CompIds : Get(o, id) = 1

\* C6 as stated: a handle that was destroyed (it lies in the free list)
\* reports dead in every later state, and a create never returns a handle
\* that was issued before.
C6_DestroyedStaysDead ==
    [][/\ \A e \in freeEntitieIDs : e \notin liveEntitieIDs'
       /\ lastOp'.op = "CreateEntity" => lastOp'.ret >= nextEntityID]_vars

\* C7: add / remove on a live entity moves it to the archetype of the old
\* mask plus / minus ids, keeps the value of every component on both sides,
\* and leaves every added component zero, or equal to the value provided.
C7_MoveStep ==
    (lastOp'.op \in {"AddComponents", "RemoveComponents"} /\ lastOp'.ret = "ok") =>
        LET e      == lastOp'.e
            old    == index[e].arch
            ids    == lastOp'.ids
            adding == lastOp'.op = "AddComponents"
            new    == IF adding THEN old \cup ids ELSE old \ ids
            got(id) == GetIn(archs', index', liveEntitieIDs', e, id)
        IN  /\ index'[e].arch = new
            /\ archs'[new].Mask = new
            /\ \A id \in CompIds : HasIn(archs', index', liveEntitieIDs', e, id)
                                      = (id \in new)
            /\ \A id \in old \cap new : got(id) = Get(e, id)
            /\ \A id \in CompIds \ new : got(id) = NoValue
            /\ adding =>
                  \A id \in ids :
                     CompSize[id + 1] > 0 =>
                        got(id) = IF id \in DOMAIN lastOp'.init
                                  THEN lastOp'.init[id] ELSE 0

C7_MoveKeepsAndInitializes == [][C7_MoveStep]_vars

C7_Witness ==
    /\ lastOp.op = "AddComponents"
    /\ lastOp.ret = "ok"
    /\ lastOp.ids = {1}
    /\ lastOp.init = <<>>
    /\ Get(lastOp.e, 0) = 1
    /\ Get(lastOp.e, 1) = 0
    /\ index[lastOp.e].row = 1

\* C8: add(e, ids) followed by remove(e, ids) leaves e with its original
\* mask and the original value of every component it had.
C8_AddRemoveRoundTrip ==
    rt.stage = "removed" =>
        /\ IsAlive(rt.e)
        /\ index[rt.e].arch = rt.mask
        /\ \A id \in rt.mask : Get(rt.e, id) = rt.vals[id]

C8_Witness ==
    /\ rt.stage = "removed"
    /\ \E id \in rt.mask : rt.vals[id] = 1

WorldUnchanged ==
    /\ archs' = archs
    /\ index' = index
    /\ liveEntitieIDs' = liveEntitieIDs
    /\ freeEntitieIDs' = freeEntitieIDs
    /\ nextEntityID' = nextEntityID

\* C9: add(e, ids) with some id already in e's mask returns
\* DuplicateComponent, remove(e, ids) with some id not in e's mask returns
\* MissingComponent, and neither changes an archetype, a column or the index.
C9_RejectStep ==
    /\ lastOp'.op = "AddComponents" =>
          ((IsAlive(lastOp'.e) /\ lastOp'.ids \cap index[lastOp'.e].arch # {})
              => (lastOp'.ret = "DuplicateComponent" /\ WorldUnchanged))
    /\ lastOp'.op = "RemoveComponents" =>
          ((IsAlive(lastOp'.e) /\ ~(lastOp'.ids \subseteq index[lastOp'.e].arch))
              => (lastOp'.ret = "MissingComponent" /\ WorldUnchanged))

C9_DuplicateAndMissingRejected == [][C9_RejectStep]_vars

C9_Witness ==
    /\ lastOp.op = "AddComponents"
    /\ lastOp.ret = "DuplicateComponent"
    /\ lastOp.ids = {0, 1}
    /\ index[lastOp.e].arch = {1}
    /\ Get(lastOp.e, 1) = 1

\* C10: an operation on a handle that fails the liveness check changes
\* nothing: add, remove, set and destroy return Dead, get returns null and
\* has returns false.
C10_DeadStep ==
    /\ (/\ lastOp'.op \in {"AddComponents", "RemoveComponents", "Set",
                           "DestroyEntity"}
        /\ ~IsAlive(lastOp'.e))
          => (lastOp'.ret = "Dead" /\ WorldUnchanged)
    /\ \A e \in EntityIds \ liveEntitieIDs' :
          \A id \in CompIds :
             /\ GetIn(archs', index', liveEntitieIDs', e, id) = NoValue
             /\ ~HasIn(archs', index', liveEntitieIDs', e, id)

C10_DeadHandleRejected == [][C10_DeadStep]_vars

C10_Witness ==
    /\ lastOp.op = "DestroyEntity"
    /\ lastOp.ret = "Dead"
    /\ lastOp.e \in freeEntitieIDs
    /\ liveEntitieIDs # {}

---------------------------------------------------------------------------
(* Claims on the archetype graph (SpecGraph) *)

NodePtrs == 1 .. Len(nodes)

\* C11: node A has toAdd[id] = B exactly when B has toRemove[id] = A, and an
\* add edge from A to B over id means B.mask = A.mask plus id, with id not
\* in A.mask.
C11_EdgesSymmetricAndGrowing ==
    \A a \in NodePtrs, id \in CompIds :
        /\ nodes[a].toAdd[id] \in NodePtrs \cup {NilNode}
        /\ nodes[a].toRemove[id] \in NodePtrs \cup {NilNode}
        /\ \A b \in NodePtrs :
              /\ (nodes[a].toAdd[id] = b) = (nodes[b].toRemove[id] = a)
              /\ nodes[a].toAdd[id] = b =>
                    /\ id \notin nodes[a].mask
                    /\ nodes[b].mask = nodes[a].mask \cup {id}
                    /\ Cardinality(nodes[b].mask) = Cardinality(nodes[a].mask) + 1

C11_Witness ==
    /\ lastOp.op = "GraphTransition"
    /\ ~lastOp.add
    /\ Len(nodes) >= 4
    /\ lastOp.ret = Len(nodes)
    /\ nodes[lastOp.ret].toAdd[lastOp.id] = lastOp.cur
    /\ nodes[lastOp.cur].toRemove[lastOp.id] = lastOp.ret

\* C12: no two nodes (each with its archetype) have the same mask, a node
\* once created stays with its mask, and resolving a list of ids returns
\* the node of exactly those ids, the one already there if the ids were
\* resolved before in any order; adding or removing one id at a node leads
\* to the node of the resulting mask.
C12_ResolveStep ==
    /\ \A i, j \in 1 .. Len(nodes') : i # j => nodes'[i].mask # nodes'[j].mask
    /\ Len(nodes') >= Len(nodes)
    /\ \A i \in NodePtrs : nodes'[i].mask = nodes[i].mask
    /\ lastOp'.op = "GraphResolve" =>
          /\ lastOp'.ret \in 1 .. Len(nodes')
          /\ nodes'[lastOp'.ret].mask = IdsOf(lastOp'.order)
          /\ FindNode(nodes, IdsOf(lastOp'.order)) # NilNode
                => lastOp'.ret = FindNode(nodes, IdsOf(lastOp'.order))
    /\ lastOp'.op = "GraphTransition" =>
          nodes'[lastOp'.ret].mask =
              IF lastOp'.add THEN nodes[lastOp'.cur].mask \cup {lastOp'.id}
                             ELSE nodes[lastOp'.cur].mask \ {lastOp'.id}

C12_OneArchetypePerMask == [][C12_ResolveStep]_vars

C12_Witness ==
    /\ lastOp.op = "GraphResolve"
    /\ Len(lastOp.order) = 2
    /\ lastOp.order[1] > lastOp.order[2]
    /\ lastOp.ret # Len(nodes)
    /\ lastOp.ret # RootNode

---------------------------------------------------------------------------
(* Claims on the component registry (SpecRegistry) *)

\* one lookup of type key tp that took the registry from old to new and
\* answered id
LookupStep(old, new, tp, id, failed) ==
    /\ \A t \in Registered(old) : new[t] = old[t]
    /\ {new[t] : t \in Registered(new)} = 0 .. (Cardinality(Registered(new)) - 1)
    /\ \A t, u \in Registered(new) : new[t] = new[u] => t = u
    /\ ~failed =>
          /\ new[tp] = id
          /\ tp \in Registered(old) => (id = old[tp] /\ new = old)
          /\ tp \notin Registered(old) => id = Cardinality(Registered(old))

\* C13: ids are assigned injectively and densely from 0 in registration
\* order: the k-th distinct type gets id k-1, a registered type gets its
\* existing id again, and no id is reassigned or retired.
C13_RegistryStep ==
    /\ lastOp'.op = "ComponentID" =>
          LookupStep(registry.components, registry'.components, lastOp'.tp,
                     lastOp'.id, lastOp'.err # "ok")
    /\ lastOp'.op = "ResourcesAdd" =>
          LookupStep(registry.resources.registry, registry'.resources.registry,
                     lastOp'.tp, lastOp'.id,
                     lastOp'.err = "TooManyComponentTypes")

C13_IdsInjectiveAndDense == [][C13_RegistryStep]_vars

C13_Witness ==
    /\ lastOp.op = "ComponentID"
    /\ lastOp.err = "ok"
    /\ lastOp.id = 1
    /\ lastOp.tp # 1
    /\ Cardinality(Registered(registry.components)) = MaskTotalBits

\* C14: registering a new type succeeds while fewer than MaskTotalBits
\* types are registered; with MaskTotalBits types registered it fails with
\* TooManyComponentTypes and changes no assignment.
C14_LimitStep ==
    (lastOp'.op = "ComponentID" /\ lastOp'.tp \notin Registered(registry.components)) =>
        LET n == Cardinality(Registered(registry.components))
        IN  /\ n <= MaskTotalBits
            /\ n < MaskTotalBits =>
                  /\ lastOp'.err = "ok"
                  /\ Cardinality(Registered(registry'.components)) = n + 1
            /\ n = MaskTotalBits =>
                  /\ lastOp'.err = "TooManyComponentTypes"
                  /\ registry'.components = registry.components

C14_TooManyComponentTypes == [][C14_LimitStep]_vars

C14_Witness ==
    /\ lastOp.op = "ComponentID"
    /\ lastOp.err = "TooManyComponentTypes"
    /\ Cardinality(Registered(registry.components)) = MaskTotalBits
    /\ lastOp.tp \notin Registered(registry.components)

---------------------------------------------------------------------------
(* Claims on the access table of an archetype (SpecArch) *)

---------------------------------------------------------------------------
(* Claims on tag components through the facade (SpecTags) *)

\* the live entities that carry tag T, by the mask of their archetype
Tagged(T) == {e \in liveEntitieIDs : T \in index[e].arch}

---------------------------------------------------------------------------
(* Claims on programming errors (SpecConstruct) *)

\* ids is strictly increasing
Increasing(ids) == \A i, j \in 1 .. Len(ids) : i < j => ids[i] < ids[j]

C17_InitStep ==
    lastOp'.op = "ArchInit" =>
       LET cs == lastOp'.components
       IN  /\ lastOp'.panic = ~Increasing(cs)
           /\ lastOp'.panic => archs' = archs
           /\ ~lastOp'.panic =>
                 /\ archs'[IdsOf(cs)] # NoArch
                 /\ archs'[IdsOf(cs)].Ids = cs
                 /\ archs'[IdsOf(cs)].Mask = IdsOf(cs)
                 /\ \A m \in Masks \ {IdsOf(cs)} : archs'[m] = archs[m]

\* C17: constructing an archetype from a component list whose ids are not
\* strictly increasing (out of order or repeated) panics; a strictly
\* increasing list constructs an archetype whose ids list equals the input
\* ids and whose mask has exactly those bits set.
C17_UnsortedListPanics == [][C17_InitStep]_vars

C17_Witness ==
    /\ lastOp.op = "ArchInit"
    /\ lastOp.panic
    /\ Len(lastOp.components) = 2
    /\ lastOp.components[1] = lastOp.components[2]
    /\ \E m \in Created : Cardinality(m) = 2 /\ archs[m].Ids = SortedIds(m)

---------------------------------------------------------------------------
(* Claims on programming errors (SpecArch) *)

C18_AddStep ==
    lastOp'.op = "ArchAdd" =>
       LET m     == lastOp'.mask
           count == IF lastOp'.panic THEN lastOp'.count
                    ELSE Len(lastOp'.components)
       IN  /\ lastOp'.panic = (count # Len(archs[m].Ids))
           /\ lastOp'.panic =>
                 /\ archs'[m].len = archs[m].len
                 /\ archs'[m].entities = archs[m].entities
                 /\ archs'[m].buffers = archs[m].buffers
                 /\ archs' = archs

\* C18: archetype.add called with a number of components different from
\* |ids| panics, and it does so before appending anything: len, the entities
\* column and all component columns are unchanged.
C18_WrongCountPanicsBeforeAppend == [][C18_AddStep]_vars

C18_Witness ==
    /\ lastOp.op = "ArchAdd"
    /\ lastOp.panic
    /\ lastOp.count = 1
    /\ Len(archs[lastOp.mask].Ids) = 2
    /\ archs[lastOp.mask].len = 2

---------------------------------------------------------------------------
(* Claims on unchecked row indices (SpecBounds) *)

C19_IndexStep ==
    (/\ lastOp'.op \in {"GetAt", "ZeroAt", "RemoveAt"}
     /\ ~ULess(lastOp'.row, archs[lastOp'.mask].len)) =>
        LET m == lastOp'.mask
        IN  /\ lastOp'.fault
            /\ archs'[m].len = archs[m].len
            /\ archs'[m].entities.len = archs[m].entities.len

\* C19: indexing a column or archetype with a row index >= len (get, zero,
\* remove, including remove on an empty column) panics; it never returns
\* normally and never changes len (no wrap-around of len below zero).
C19_OutOfBoundsPanics == [][C19_IndexStep]_vars

---------------------------------------------------------------------------
(* Claims on the reuse of entity ids (Spec) *)

\* the handles World.Entity has issued so far: a handle is its val alone, and
\* every val below nextEntityID has been handed out
Issued == 0 .. (nextEntityID - 1)

C20_ReuseStep ==
    lastOp'.op = "CreateEntity" =>
        /\ lastOp'.ret \notin Issued
        /\ freeEntitieIDs' = freeEntitieIDs

\* C20: a slot whose generation has reached its maximum is never reused by a
\* later create, so no two handles ever issued for the same id carry the same
\* generation.  A handle of World.Entity has no generation besides its val:
\* the one handle of a slot is used up when it is first issued, so a create
\* must not take a slot from the free list and return an issued handle again.
C20_ExhaustedSlotNotReused == [][C20_ReuseStep]_vars

---------------------------------------------------------------------------
(* Claims on resources (SpecRegistry) *)

\* a resource of the type with key tp has been added to r
AlreadyAdded(r, tp) ==
    /\ r.registry[tp] # Unregistered
    /\ r.resources[r.registry[tp]] # NilRes

\* the ids under which r holds no resource
NeverAdded(r) ==
    {id \in DOMAIN r.resources : \A tp \in TypeKeys : ~(AlreadyAdded(r, tp) /\ r.registry[tp] = id)}

C21_AddStep ==
    (lastOp'.op = "ResourcesAdd" /\ lastOp'.err # "TooManyComponentTypes") =>
        LET old == registry.resources
            new == registry'.resources
            id  == lastOp'.id
        IN  /\ (lastOp'.err = "panic") = AlreadyAdded(old, lastOp'.tp)
            /\ lastOp'.err = "panic" =>
                  /\ new.resources = old.resources
                  /\ ResourcesGet(new, id) # NilRes
            /\ lastOp'.err = "ok" =>
                  /\ new.registry[lastOp'.tp] = id
                  /\ ResourcesHas(new, id)
                  /\ ResourcesGet(new, id) = lastOp'.res
                  /\ \A o \in DOMAIN old.resources \ {id} :
                        ResourcesGet(new, o) = ResourcesGet(old, o)
            /\ \A o \in NeverAdded(new) :
                  ResourcesGet(new, o) = NilRes /\ ~ResourcesHas(new, o)

\* C21: resources.Add(res) panics if a resource of the same type has already
\* been added and leaves the stored resource unchanged; otherwise it stores
\* res under the type's id, after which Has(id) is true and Get(id) returns
\* res; for an id with no resource added Get returns nil and Has returns
\* false.
C21_AddOncePerType == [][C21_AddStep]_vars

C21_Witness ==
    /\ lastOp.op = "ResourcesAdd"
    /\ lastOp.err = "panic"
    /\ ResourcesHas(registry.resources, lastOp.id)
    /\ ResourcesGet(registry.resources, lastOp.id) # lastOp.res
    /\ \E o \in DOMAIN registry.resources.resources :
          /\ o # lastOp.id
          /\ ResourcesHas(registry.resources, o)
    /\ NeverAdded(registry.resources) # {}

---------------------------------------------------------------------------
(* Claims on rows and capacity (SpecArch) *)

\* C22 as stated: alloc(entity) returns a row equal to the previous len and
\* every component at that row reads as all-zero bytes, also when the slot
\* held an entity that has since been swap-removed.
C22_AllocStep_Stated ==
    lastOp'.op = "ArchAlloc" =>
        LET a == archs[lastOp'.mask]
            b == archs'[lastOp'.mask]
        IN  /\ lastOp'.ret = a.len
            /\ \A id \in b.Mask : ValueAt(b, lastOp'.ret, id) = 0

C22_AllocStep ==
    lastOp'.op = "ArchAlloc" =>
        LET a   == archs[lastOp'.mask]
            b   == archs'[lastOp'.mask]
            row == lastOp'.ret
        IN  /\ row = a.len
            /\ b.len = a.len + 1
            /\ GetEntity(b, row) = lastOp'.entity
            /\ lastOp'.zero =>
                  \A id \in b.Mask : ValueAt(b, row, id) = 0
            /\ ~lastOp'.zero =>
                  \A id \in b.Mask :
                     ValueAt(b, row, id) =
                        IF row < a.cap THEN ValueAt(a, row, id) ELSE 0

Pushed(op) == op.op = "ArchAlloc" \/ (op.op = "ArchAdd" /\ ~op.panic)

\* the smallest whole number at or above x / y
CeilDiv(x, y) == (x + y - 1) \div y

\* len <= cap for the archetype and for its entities column, after the step
C23_LenWithinCap ==
    \A m \in Masks :
        archs'[m] # NoArch =>
           /\ archs'[m].len <= archs'[m].cap
           /\ archs'[m].entities.len <= archs'[m].entities.cap

\* cap never decreases on removal
C23_RemoveKeepsCap ==
    lastOp'.op = "ArchRemove" =>
        /\ archs'[lastOp'.mask].cap = archs[lastOp'.mask].cap
        /\ archs'[lastOp'.mask].entities.cap = archs[lastOp'.mask].entities.cap

C23_GrowStep_Stated ==
    /\ C23_LenWithinCap
    /\ C23_RemoveKeepsCap
    /\ Pushed(lastOp') =>
          LET a   == archs[lastOp'.mask]
              b   == archs'[lastOp'.mask]
              inc == a.capacityIncrement
          IN  a.len = a.cap => b.cap = inc * CeilDiv(a.cap + inc, inc)

\* C23 as stated: len <= cap in every reachable state; a push that finds
\* len = cap sets cap to grow_increment * ceiling((cap + grow_increment) /
\* grow_increment); cap never decreases on removal.
C23_GrowsByCeiling_Stated == [][C23_GrowStep_Stated]_vars

C23_GrowStep ==
    /\ C23_LenWithinCap
    /\ C23_RemoveKeepsCap
    /\ Pushed(lastOp') =>
          LET a   == archs[lastOp'.mask]
              b   == archs'[lastOp'.mask]
              inc == a.capacityIncrement
          IN  /\ a.len = a.cap =>
                    /\ b.cap = inc * ((a.cap + inc) \div inc)
                    /\ b.cap % inc = 0
                    /\ b.cap > a.cap
                    /\ b.cap - inc <= a.cap
              /\ a.len < a.cap => b.cap = a.cap
              /\ b.entities.cap =
                    IF a.entities.len = a.entities.cap
                    THEN a.entities.cap + inc ELSE a.entities.cap

\* C23 amended: len <= cap in every reachable state; a push that finds
\* len = cap sets the archetype's cap to grow_increment * floor((cap +
\* grow_increment) / grow_increment), the next multiple of grow_increment
\* strictly greater than the old cap (2, not 4, for a holder archetype of
\* initial cap 1 and increment 2), and a full column grows by one
\* grow_increment; cap never decreases on removal.
C23_GrowsToNextMultiple == [][C23_GrowStep]_vars

C23_Witness ==
    /\ Pushed(lastOp)
    /\ capacityIncrement = 2
    /\ archs[lastOp.mask].len = 2
    /\ archs[lastOp.mask].cap = 2
    /\ archs[lastOp.mask].entities.cap = 3

C24_PushStep ==
    Pushed(lastOp') =>
        LET a == archs[lastOp'.mask]
            b == archs'[lastOp'.mask]
        IN  \A r \in 0 .. (a.len - 1) :
               /\ GetEntity(b, r) = GetEntity(a, r)
               /\ \A id \in CompIds : ValueAt(b, r, id) = ValueAt(a, r, id)

\* C24: appending a row (alloc, add) leaves the entity and every component
\* value of all previously existing rows unchanged, including when the
\* append triggers a capacity growth that reallocates the columns.
C24_PushKeepsEarlierRows == [][C24_PushStep]_vars

C24_Witness ==
    /\ Pushed(lastOp)
    /\ capacityIncrement = 2
    /\ archs[lastOp.mask].len = 3
    /\ archs[lastOp.mask].cap = 4
    /\ GetEntity(archs[lastOp.mask], 0) = 1
    /\ \E id \in archs[lastOp.mask].Mask :
          /\ ValueAt(archs[lastOp.mask], 0, id) = 1
          /\ ValueAt(archs[lastOp.mask], 1, id) = 0

---------------------------------------------------------------------------
(* Claims on the id pool (SpecEntities) *)

\* the handles returned by the step into the state with lastOp = op
Returned(op) ==
    IF op.op = "Entity" THEN {op.ret}
    ELSE IF op.op = "Entities" THEN {op.ret[i] : i \in 1 .. Len(op.ret)}
    ELSE {}

C29_PoolStep ==
    /\ liveEntitieIDs' \cap freeEntitieIDs' = {}
    /\ Returned(lastOp') \cap liveEntitieIDs = {}
    /\ lastOp'.op = "Entities" =>
          Cardinality(Returned(lastOp')) = lastOp'.count

\* C29: after any sequence of World.Entity, World.EntityFromU32,
\* World.Entities and World.Reset calls, the live and free id sets are
\* disjoint and World.Entity never returns an id that is already live
\* (including ids made live by EntityFromU32 with a value at or above
\* nextEntityID, and ids issued before a Reset).
C29_EntityNeverReturnsLiveId == [][C29_PoolStep]_vars

---------------------------------------------------------------------------
(* Claims on the systems of World and on World.Tick (SpecSystems) *)

\* C25: in one call of World.Tick, the Tick method of every registered,
\* enabled system is invoked exactly once (never twice), and the Tick method
\* of a disabled system is not invoked at all.
C25_CallStep ==
    /\ \A id \in DOMAIN tick'.calls :
          /\ tick'.calls[id] <= 1
          /\ systems'[id].isDisabled => tick'.calls[id] = 0
    /\ lastOp'.op = "TickReturn" =>
          \A id \in DOMAIN systems' :
             tick'.calls[id] = IF systems'[id].isDisabled THEN 0 ELSE 1

C25_EverySystemTicksOnce == [][C25_CallStep]_vars

RECURSIVE ReliedOn(_, _)
\* the systems that the systems of S rely on, through at most n steps
ReliedOn(S, n) ==
    IF n = 0 THEN {}
    ELSE LET direct == UNION {systems[id].waitingOnTmpl : id \in S}
         IN  direct \cup ReliedOn(direct, n - 1)

\* C26: within one World.Tick, a system's Tick is started only after the
\* Tick of every system it relies on has returned in that same tick, and a
\* system never executes concurrently with a system it (transitively) relies
\* on.
C26_StartStep ==
    /\ lastOp'.op = "GoTick" =>
          \A dep \in systems[lastOp'.id].waitingOnTmpl :
             /\ tick.calls[dep] >= 1
             /\ dep \notin tick.ticking
    /\ \A id \in tick'.ticking :
          ReliedOn({id}, MaxSystems) \cap tick'.ticking = {}

C26_DependenciesFirst == [][C26_StartStep]_vars

C27_ReturnStep ==
    lastOp'.op = "TickReturn" =>
        /\ tickCount' = tickCount + 1
        /\ leftToRun' = {}
        /\ \A id \in DOMAIN systems' :
              /\ ~systems'[id].hasRun
              /\ systems'[id].waitingOn = systems'[id].waitingOnTmpl

\* C27: World.Tick terminates for every set of systems accepted by
\* AddSystems and every enable/disable state (including when an enabled
\* system relies on a disabled one), and on return tickCount has increased
\* by exactly one, leftToRun is empty, and every runner has hasRun = false
\* and waitingOn equal to its dependency template.
C27_TickTerminates ==
    /\ (tick.pc # "idle") ~> (tick.pc = "idle")
    /\ [][C27_ReturnStep]_vars

\* C28: RemoveSystems(s) for a registered system s that no other registered
\* system relies on succeeds (returns nil) and removes s from the world; it
\* returns an error and removes nothing only when s is not registered or
\* some other registered system relies on s.
C28_RemoveStep ==
    lastOp'.op = "RemoveSystems" =>
        LET found   == FindSystem(lastOp'.name)
            blocked == \E o \in DOMAIN systems \ {found} :
                          found \in systems[o].waitingOnTmpl
        IN  IF found # NoSystem /\ ~blocked
            THEN /\ lastOp'.err = "nil"
                 /\ DOMAIN systems' = DOMAIN systems \ {found}
                 /\ \A o \in DOMAIN systems' : systems'[o] = systems[o]
            ELSE /\ lastOp'.err # "nil"
                 /\ systems' = systems

C28_RemoveUnlessReliedOn == [][C28_RemoveStep]_vars

====
